---- MODULE Spec2Model ----
(***************************************************************************)
(* Model of src/web/app.py: a Flask service with CRUD handlers on a        *)
(* PostgreSQL table `users` and a Redis key 'all_users' that caches the    *)
(* result of GET /users for 30 seconds.                                    *)
(*                                                                         *)
(* Every handler is cut at the points where another request can be         *)
(* observed between two of its calls to an external system: list_users     *)
(* into cache get / SELECT / cache set, update_user and delete_user into   *)
(* the committed statement / cache delete.                                 *)
(*                                                                         *)
(* Limits of the model: two workers; one GET /users past its cache probe   *)
(* at a time (a list request interleaves with every other kind of request, *)
(* not with a second list request); an absent JSON field is the only       *)
(* falsy argument; column values stay within VARCHAR(80)/VARCHAR(120).     *)
(***************************************************************************)
EXTENDS Integers, Sequences, FiniteSets, TLC

\* ---------------------------------------------------------------- bounds
MaxId == 2          \* values the SERIAL sequence of users.id may hand out
TickStep == 15      \* seconds that pass in one Tick step

\* ------------------------------------------------------------- constants
TTL == 30           \* ex=30 of redis_client.set

Procs == {1, 2}                 \* workers serving requests concurrently
None == "None"                  \* Python None (an absent JSON field)
Usernames == {"a", "b"}
Emails == {"x", "y"}
UsernameArgs == Usernames \cup {None}
EmailArgs == Emails \cup {None}
Ids == 1..MaxId

VARIABLES
    tableExists,    \* the table users exists in the database
    store,          \* rows of users: records [id, username, email]
    nextId,         \* next value of the sequence behind users.id
    redis_client,   \* module global: "client" or None
    cache,          \* Redis key 'all_users': [present, value, ttl]
    pc,             \* per request slot: position in its handler
    users,          \* per slot: local `users` of list_users
    last,           \* the handler step taken last and its response, if any
    sinceMut,       \* kind of the mutation that just succeeded, else "none"
    populated,      \* list last written to the cache by list_users, its age
    origin,         \* rows as created, not updated or deleted since
    invalidated     \* a cache delete ran since the SELECT of the list request
                    \* that is about to write the cache

vars == <<tableExists, store, nextId, redis_client, cache,
          pc, users, last, sinceMut, populated, origin, invalidated>>

\* ------------------------------------------------------------ pure parts

\* Python truthiness of a JSON string field or None
Truthy(v) == v # None /\ v # ""

\* create_user: `if not username or not email`
CreateInvalid(username, email) == ~Truthy(username) \/ ~Truthy(email)

\* variant of UpdateInvalid: the check is missing
UpdateInvalidNever(username, email) == FALSE

\* update_user: `if not username and not email`
UpdateInvalid(username, email) == ~Truthy(username) /\ ~Truthy(email)

\* variant of UniqueViolation: only username is UNIQUE
UniqueViolationUsernameOnly(rows, id, username, email) ==
    \E r \in rows : r.id # id /\ r.username = username

\* variant of UniqueViolation: only email is UNIQUE
UniqueViolationEmailOnly(rows, id, username, email) ==
    \E r \in rows : r.id # id /\ r.email = email

\* UNIQUE on username and on email: another row holds one of the values
UniqueViolation(rows, id, username, email) ==
    \E r \in rows : r.id # id /\ (r.username = username \/ r.email = email)

\* NOT NULL on username and on email
NotNullViolation(username, email) == username = None \/ email = None

\* variant of Rowcount: the handlers never see rowcount 0
RowcountAlwaysOne(rows, id) == 1

\* cur.rowcount after a statement with WHERE id = %s
Rowcount(rows, id) == Cardinality({r \in rows : r.id = id})

Row(id, username, email) == [id |-> id, username |-> username, email |-> email]

\* variant of InsertRow: the two parameters of the INSERT are swapped
InsertRowSwapped(rows, id, username, email) ==
    rows \cup {Row(id, email, username)}

\* INSERT INTO users (username, email) VALUES (%s, %s) RETURNING id
InsertRow(rows, id, username, email) == rows \cup {Row(id, username, email)}

\* variant of UpdateRows: the WHERE clause is missing
UpdateRowsNoWhere(rows, id, username, email) ==
    {Row(r.id, username, email) : r \in rows}

\* UPDATE users SET username = %s, email = %s WHERE id = %s
UpdateRows(rows, id, username, email) ==
    {IF r.id = id THEN Row(id, username, email) ELSE r : r \in rows}

\* DELETE FROM users WHERE id = %s
DeleteRows(rows, id) == {r \in rows : r.id # id}

\* SELECT ... FROM users: the rows in any order
SelectAll(rows) ==
    {s \in [1..Cardinality(rows) -> rows] :
        \A i, j \in 1..Cardinality(rows) : i # j => s[i] # s[j]}

\* SELECT ... WHERE id = %s; cur.fetchone() as a list of at most one row
SelectById(rows, id) ==
    IF \E r \in rows : r.id = id
    THEN <<CHOOSE r \in rows : r.id = id>>
    ELSE <<>>

BodySet(body) == {body[i] : i \in 1..Len(body)}

\* str(users): the text of a list of dicts, as its tokens
RECURSIVE EncodeItems(_)
EncodeItems(us) ==
    IF us = <<>> THEN <<>>
    ELSE <<"{", "id", ToString(Head(us).id), "username", Head(us).username,
           "email", Head(us).email, "}">> \o EncodeItems(Tail(us))

\* variant of Encode: the text loses the emails
EncodeNoEmail(us) ==
    <<"[">> \o EncodeItems([i \in 1..Len(us) |->
                 Row(us[i].id, us[i].username, "")]) \o <<"]">>

Encode(us) == <<"[">> \o EncodeItems(us) \o <<"]">>

ParseInt(tok) == CHOOSE i \in 0..(MaxId + 1) : ToString(i) = tok

\* eval(cached_users.decode('utf-8')) of a text written by Encode
RECURSIVE DecodeItems(_)
DecodeItems(toks) ==
    IF Len(toks) < 8 THEN <<>>
    ELSE <<Row(ParseInt(toks[3]), toks[5], toks[7])>>
         \o DecodeItems(SubSeq(toks, 9, Len(toks)))

Decode(toks) == DecodeItems(SubSeq(toks, 2, Len(toks) - 1))

NoEntry == [present |-> FALSE, value |-> <<>>, ttl |-> 0]

\* variant of CacheSet: ex=60
CacheSetLongTtl(value) == [present |-> TRUE, value |-> value, ttl |-> 2 * TTL]

\* redis_client.set('all_users', value, ex=30)
CacheSet(value) == [present |-> TRUE, value |-> value, ttl |-> TTL]

\* variant of CacheDelete: the key is left in place
CacheDeleteNothing(c) == c

\* redis_client.delete('all_users')
CacheDelete(c) == NoEntry

\* variant of FillWrites: a snapshot older than the last invalidation is
\* not written
FillWritesIfCurrent(client, redisUp, inval) ==
    client # None /\ redisUp /\ ~inval

\* list_users: `if redis_client: redis_client.set(...)`. Whether a cache
\* delete ran since the SELECT (inval) is not looked at.
FillWrites(client, redisUp, inval) == client # None /\ redisUp

\* variant of CacheHit: the text of an empty list counts as no snapshot
CacheHitNonEmpty(c) == c.present /\ Len(c.value) > 2

\* variant of CacheHit: the cached text is never used
CacheHitNever(c) == FALSE

\* redis_client.get('all_users') followed by `if cached_users:`
CacheHit(c) == c.present /\ Len(c.value) > 0

NoList == [valid |-> FALSE, body |-> <<>>, age |-> 0]

\* ------------------------------------------------------- step records

NoStep == [kind |-> "none", first |-> FALSE, code |-> 0, body |-> <<>>,
           hit |-> FALSE, storeCalls |-> 0, cacheCalls |-> 0,
           committed |-> FALSE, dbDown |-> FALSE, cacheErr |-> FALSE,
           afterMut |-> "none", raced |-> FALSE]

\* A step of a handler: code is the status of the response it sends, 0
\* when the handler has not answered yet
Step(kind, first, code, body) ==
    [NoStep EXCEPT !.kind = kind, !.first = first, !.code = code,
                   !.body = body]

Quiet(p) == \A q \in Procs \ {p} : pc[q] = "idle"

\* The step record is read (Observe) before the next step is taken, so it
\* always describes the step that led to the current state
Ready == last = NoStep

\* A new request goes to the first idle worker
Free(p) ==
    /\ Ready
    /\ pc[p] = "idle"
    /\ \A q \in Procs : q < p => pc[q] # "idle"

\* ------------------------------------------------------------------ Init

\* State after the module body ran: redis_client is None when the ping at
\* start failed; init_db creates the table only when it could connect (the
\* table may be there from an earlier run).
Init ==
    /\ tableExists \in BOOLEAN
    /\ store = {}
    /\ nextId = 1
    /\ redis_client \in {"client", None}
    /\ cache = NoEntry
    /\ pc = [p \in Procs |-> "idle"]
    /\ users = [p \in Procs |-> <<>>]
    /\ last = NoStep
    /\ sinceMut = "none"
    /\ populated = NoList
    /\ origin = {}
    /\ invalidated = FALSE

\* In every handler, dbUp says whether psycopg2.connect succeeds for this
\* request (get_db_connection returns None otherwise) and redisUp whether
\* the Redis server answers this call (the client raises otherwise).

\* ---------------------------------------------------------------- create

CreateCode(username, email, dbUp) ==
    IF CreateInvalid(username, email) THEN 400
    ELSE IF ~dbUp THEN 503
    ELSE IF ~tableExists THEN 500
    ELSE IF UniqueViolation(store, 0, username, email) THEN 409
    ELSE 201

\* POST /users. The INSERT draws the next id from the sequence whether or
\* not the row is then rejected by a UNIQUE constraint.
create_user(p, username, email, dbUp) ==
    /\ Free(p)
    /\ LET code == CreateCode(username, email, dbUp)
           insert == code \in {409, 201}
           row == Row(nextId, username, email)
       IN /\ insert => nextId <= MaxId
          /\ store' = IF code = 201
                      THEN InsertRow(store, nextId, username, email)
                      ELSE store
          /\ nextId' = IF insert THEN nextId + 1 ELSE nextId
          /\ origin' = IF code = 201 THEN origin \cup {row} ELSE origin
          /\ sinceMut' = IF code = 201 /\ Quiet(p) THEN "create" ELSE "none"
          /\ last' = [Step("create", TRUE, code,
                           IF code = 201 THEN <<row>> ELSE <<>>)
                        EXCEPT !.storeCalls = IF code = 400 THEN 0 ELSE 1,
                               !.dbDown = (code = 503),
                               !.committed = (code = 201)]
    /\ UNCHANGED <<tableExists, redis_client, cache, pc, users,
                   populated,
                   invalidated>>

\* ------------------------------------------------------------------- get

GetCode(id, dbUp) ==
    IF ~dbUp THEN 503
    ELSE IF ~tableExists THEN 500
    ELSE IF SelectById(store, id) # <<>> THEN 200
    ELSE 404

\* GET /users/<id>
get_user(p, id, dbUp) ==
    /\ Free(p)
    /\ LET code == GetCode(id, dbUp)
       IN last' = [Step("get", TRUE, code,
                        IF code = 200 THEN SelectById(store, id) ELSE <<>>)
                     EXCEPT !.storeCalls = 1,
                            !.dbDown = (code = 503)]
    /\ sinceMut' = "none"
    /\ UNCHANGED <<tableExists, store, nextId, redis_client, cache, pc,
                   users, populated, origin,
                   invalidated>>

\* ---------------------------------------------------------------- update

\* 0 stands for: the statement committed, the handler goes on
UpdateCode(id, username, email, dbUp) ==
    IF UpdateInvalid(username, email) THEN 400
    ELSE IF ~dbUp THEN 503
    ELSE IF ~tableExists THEN 500
    ELSE IF Rowcount(store, id) = 0 THEN 404
    ELSE IF NotNullViolation(username, email)
            \/ UniqueViolation(store, id, username, email) THEN 409
    ELSE 0

\* PUT /users/<id> up to conn.commit()
update_user(p, id, username, email, dbUp) ==
    /\ Free(p)
    /\ LET code == UpdateCode(id, username, email, dbUp)
       IN /\ store' = IF code = 0
                      THEN UpdateRows(store, id, username, email)
                      ELSE store
          /\ origin' = IF code = 0 THEN DeleteRows(origin, id) ELSE origin
          /\ pc' = IF code = 0 THEN [pc EXCEPT ![p] = "update_inval"] ELSE pc
          /\ last' = [Step("update", TRUE, code, <<>>)
                        EXCEPT !.storeCalls = IF code = 400 THEN 0 ELSE 1,
                               !.dbDown = (code = 503),
                               !.committed = (code = 0)]
    /\ sinceMut' = "none"
    /\ UNCHANGED <<tableExists, nextId, redis_client, cache, users,
                   populated,
                   invalidated>>

\* Code of the part of update_user and delete_user after conn.commit():
\* redis_client.delete raises inside the try block when Redis is
\* unreachable, and `except Exception` answers 500.
InvalidateCode(redisUp) == IF redis_client # None /\ ~redisUp THEN 500 ELSE 200

Invalidate(p, kind, redisUp) ==
    /\ redis_client = None => redisUp
    /\ cache' = IF redis_client # None /\ redisUp THEN CacheDelete(cache)
                ELSE cache
    /\ populated' = IF cache'.present THEN populated ELSE NoList
    /\ invalidated' = IF redis_client # None /\ redisUp
                      THEN \E q \in Procs : pc[q] = "list_fill"
                      ELSE invalidated
    /\ pc' = [pc EXCEPT ![p] = "idle"]
    /\ sinceMut' = IF InvalidateCode(redisUp) = 200 /\ Quiet(p) THEN kind
                   ELSE "none"
    /\ last' = [Step(kind, FALSE, InvalidateCode(redisUp), <<>>)
                  EXCEPT !.storeCalls = 1,
                         !.cacheCalls = IF redis_client # None THEN 1 ELSE 0,
                         !.committed = TRUE,
                         !.cacheErr = (InvalidateCode(redisUp) = 500)]
    /\ UNCHANGED <<tableExists, store, nextId, redis_client, users, origin>>

\* PUT /users/<id> after conn.commit()
update_user_invalidate(p, redisUp) ==
    /\ Ready
    /\ pc[p] = "update_inval"
    /\ Invalidate(p, "update", redisUp)

\* ---------------------------------------------------------------- delete

DeleteCode(id, dbUp) ==
    IF ~dbUp THEN 503
    ELSE IF ~tableExists THEN 500
    ELSE IF Rowcount(store, id) = 0 THEN 404
    ELSE 0

\* DELETE /users/<id> up to conn.commit()
delete_user(p, id, dbUp) ==
    /\ Free(p)
    /\ LET code == DeleteCode(id, dbUp)
       IN /\ store' = IF code = 0 THEN DeleteRows(store, id) ELSE store
          /\ origin' = IF code = 0 THEN DeleteRows(origin, id) ELSE origin
          /\ pc' = IF code = 0 THEN [pc EXCEPT ![p] = "delete_inval"] ELSE pc
          /\ last' = [Step("delete", TRUE, code, <<>>)
                        EXCEPT !.storeCalls = 1,
                               !.dbDown = (code = 503),
                               !.committed = (code = 0)]
    /\ sinceMut' = "none"
    /\ UNCHANGED <<tableExists, nextId, redis_client, cache, users,
                   populated,
                   invalidated>>

\* DELETE /users/<id> after conn.commit()
delete_user_invalidate(p, redisUp) ==
    /\ Ready
    /\ pc[p] = "delete_inval"
    /\ Invalidate(p, "delete", redisUp)

\* ------------------------------------------------------------------ list

\* 0 stands for: no answer yet, the handler goes on to the store
ProbeCode(redisUp) ==
    IF redis_client = None THEN 0
    ELSE IF ~redisUp THEN 500
    ELSE IF CacheHit(cache) THEN 200
    ELSE 0

\* GET /users: the cache probe. redis_client.get is outside any try block,
\* so an unreachable Redis ends the request with the framework's 500.
list_users(p, redisUp) ==
    /\ Free(p)
    /\ \A q \in Procs : pc[q] \notin {"list_query", "list_fill"}
    /\ redis_client = None => redisUp
    /\ LET code == ProbeCode(redisUp)
       IN /\ pc' = IF code = 0 THEN [pc EXCEPT ![p] = "list_query"] ELSE pc
          /\ sinceMut' = IF code = 0 /\ Quiet(p) THEN sinceMut ELSE "none"
          /\ last' = [Step("list", TRUE, code,
                           IF code = 200 THEN Decode(cache.value) ELSE <<>>)
                        EXCEPT !.hit = (code = 200),
                               !.cacheCalls = IF redis_client # None THEN 1
                                              ELSE 0,
                               !.cacheErr = (code = 500),
                               !.afterMut = IF code # 0 /\ Quiet(p)
                                            THEN sinceMut ELSE "none"]
    /\ UNCHANGED <<tableExists, store, nextId, redis_client, cache, users, populated, origin,
                   invalidated>>

\* GET /users: get_db_connection and the SELECT
list_users_query(p, dbUp) ==
    /\ Ready
    /\ pc[p] = "list_query"
    /\ IF dbUp /\ tableExists
       THEN /\ \E s \in SelectAll(store) : users' = [users EXCEPT ![p] = s]
            /\ pc' = [pc EXCEPT ![p] = "list_fill"]
            /\ sinceMut' = IF Quiet(p) THEN sinceMut ELSE "none"
            /\ last' = [Step("list", FALSE, 0, <<>>)
                          EXCEPT !.storeCalls = 1,
                                 !.cacheCalls = IF redis_client # None THEN 1
                                                ELSE 0]
       ELSE /\ pc' = [pc EXCEPT ![p] = "idle"]
            /\ sinceMut' = "none"
            /\ last' = [Step("list", FALSE, IF ~dbUp THEN 503 ELSE 500, <<>>)
                          EXCEPT !.storeCalls = 1,
                                 !.dbDown = ~dbUp,
                                 !.cacheCalls = IF redis_client # None THEN 1
                                                ELSE 0,
                                 !.afterMut = IF Quiet(p) THEN sinceMut
                                              ELSE "none"]
            /\ UNCHANGED users
    /\ invalidated' = FALSE
    /\ UNCHANGED <<tableExists, store, nextId, redis_client, cache,
                   populated, origin>>

FillCode(redisUp) == IF redis_client # None /\ ~redisUp THEN 500 ELSE 200

\* GET /users: redis_client.set('all_users', str(users), ex=30) and the answer
list_users_fill(p, redisUp) ==
    /\ Ready
    /\ pc[p] = "list_fill"
    /\ redis_client = None => redisUp
    /\ LET set == FillWrites(redis_client, redisUp, invalidated)
           code == FillCode(redisUp)
       IN /\ cache' = IF set THEN CacheSet(Encode(users[p])) ELSE cache
          /\ populated' = IF set
                          THEN [valid |-> TRUE, body |-> users[p], age |-> 0]
                          ELSE populated
          /\ last' = [Step("list", FALSE, code,
                           IF code = 200 THEN users[p] ELSE <<>>)
                        EXCEPT !.storeCalls = 1,
                               !.cacheCalls = IF redis_client # None THEN 2
                                              ELSE 0,
                               !.cacheErr = (code = 500),
                               !.raced = invalidated,
                               !.afterMut = IF Quiet(p) THEN sinceMut
                                            ELSE "none"]
    /\ pc' = [pc EXCEPT ![p] = "idle"]
    /\ users' = [users EXCEPT ![p] = <<>>]
    /\ invalidated' = FALSE
    /\ sinceMut' = "none"
    /\ UNCHANGED <<tableExists, store, nextId, redis_client, origin>>

\* ----------------------------------------------------------- environment

\* TickStep seconds pass; Redis drops the key when its time to live is over
Tick ==
    /\ Ready
    /\ cache.present
    /\ cache' = IF cache.ttl > TickStep
                THEN [cache EXCEPT !.ttl = cache.ttl - TickStep]
                ELSE NoEntry
    /\ populated' = IF cache.ttl > TickStep
                    THEN [populated EXCEPT !.age = populated.age + TickStep]
                    ELSE NoList
    /\ UNCHANGED <<tableExists, store, nextId, redis_client, pc, users,
                   last, sinceMut, origin,
                   invalidated>>

\* The response (or the progress) of the last step has been seen
Observe ==
    /\ last # NoStep
    /\ last' = NoStep
    /\ UNCHANGED <<tableExists, store, nextId, redis_client, cache, pc,
                   users, sinceMut, populated, origin,
                   invalidated>>

\* ------------------------------------------------------------------ Next

Next ==
    \/ \E p \in Procs, u \in UsernameArgs, e \in EmailArgs, dbUp \in BOOLEAN :
          create_user(p, u, e, dbUp)
    \/ \E p \in Procs, id \in Ids, dbUp \in BOOLEAN : get_user(p, id, dbUp)
    \/ \E p \in Procs, id \in Ids, u \in UsernameArgs, e \in EmailArgs,
          dbUp \in BOOLEAN :
          update_user(p, id, u, e, dbUp)
    \/ \E p \in Procs, redisUp \in BOOLEAN : update_user_invalidate(p, redisUp)
    \/ \E p \in Procs, id \in Ids, dbUp \in BOOLEAN : delete_user(p, id, dbUp)
    \/ \E p \in Procs, redisUp \in BOOLEAN : delete_user_invalidate(p, redisUp)
    \/ \E p \in Procs, redisUp \in BOOLEAN : list_users(p, redisUp)
    \/ \E p \in Procs, dbUp \in BOOLEAN : list_users_query(p, dbUp)
    \/ \E p \in Procs, redisUp \in BOOLEAN : list_users_fill(p, redisUp)
    \/ Tick
    \/ Observe

Spec == Init /\ [][Next]_vars

\* ================================================================ claims

IsMutation(kind) == kind \in {"create", "update", "delete"}

IdsOf(rows) == {r.id : r \in rows}

Duplicate(rows, username, email) ==
    \E r \in rows : r.username = username \/ r.email = email

\* C1: after a successful create, update or delete, the next list call (no
\* other request in between) that answers 200 returns exactly the users of
\* the store, also within the time to live of an older snapshot.
C1_NextListReflectsMutation ==
    (last.kind = "list" /\ last.code = 200 /\ last.afterMut # "none")
        => BodySet(last.body) = store

\* C2: a list call that misses (and answers 200, with a cache client) leaves
\* its result in the cache with the full time to live; a list call that hits
\* answers 200 with the list the populating call returned, and makes no
\* store call.
C2_MissPopulatesHitRepeats ==
    /\ (last.kind = "list" /\ last.code = 200 /\ ~last.hit
            /\ redis_client # None)
        => /\ cache.present
           /\ cache.ttl = TTL
           /\ Decode(cache.value) = last.body
           /\ populated = [valid |-> TRUE, body |-> last.body, age |-> 0]
    /\ (last.kind = "list" /\ last.hit)
        => /\ last.code = 200
           /\ populated.valid
           /\ last.body = populated.body
           /\ last.storeCalls = 0

\* a hit, after time has passed, that returns a list of two users
C2_Witness ==
    /\ last.kind = "list" /\ last.hit
    /\ Len(last.body) = 2
    /\ cache.ttl < TTL

\* C3: an update or delete that committed and then could not reach the cache
\* still answers 200.
C3_CacheErrorSwallowed ==
    (last.kind \in {"update", "delete"} /\ last.committed /\ last.cacheErr)
        => last.code = 200

\* C4: a list request whose cache get or cache set fails, with the store
\* reachable, answers 200 with the users of the store.
C4_CacheDownListFallsThrough ==
    (last.kind = "list" /\ last.cacheErr /\ ~last.dbDown /\ tableExists)
        => (last.code = 200 /\ BodySet(last.body) = store)

\* C5: a create, update or delete that answers an error has committed
\* nothing: the step that answers leaves the store as it was and no earlier
\* step of the request changed it.
C5_ErrorMeansRolledBack ==
    [][(IsMutation(last'.kind) /\ last'.code >= 400)
          => (~last'.committed /\ store' = store)]_vars

\* C6: no two users of the store share a username, and no two share an email.
C6_UniqueUsernameAndEmail ==
    \A r1, r2 \in store :
        (r1.username = r2.username \/ r1.email = r2.email) => r1 = r2

\* two users are stored and a request was just refused for a duplicate
C6_Witness == Cardinality(store) = 2 /\ last.code = 409

\* C7: a create (store reachable) whose username or email is held by an
\* existing user answers 409 and leaves the store unchanged.
C7_DuplicateCreateRejected ==
    [][\A p \in Procs, u \in Usernames, e \in Emails :
          (create_user(p, u, e, TRUE) /\ tableExists
              /\ Duplicate(store, u, e))
          => (last'.code = 409 /\ store' = store)]_vars

\* a create was refused with 409 while the store holds the user it clashes with
C7_Witness ==
    last.kind = "create" /\ last.code = 409 /\ Cardinality(store) = 1

\* C8: a delete (store reachable) of an id no user has answers 404 and
\* changes neither the store nor the cached snapshot.
C8_DeleteMissingIsNoOp ==
    [][\A p \in Procs, id \in Ids :
          (delete_user(p, id, TRUE) /\ tableExists /\ id \notin IdsOf(store))
          => (last'.code = 404 /\ store' = store /\ cache' = cache)]_vars

\* a delete answered 404 and the snapshot cached before it is still there
C8_Witness ==
    /\ last.kind = "delete" /\ last.code = 404
    /\ cache.present /\ Decode(cache.value) # <<>>

\* C9: a create (store reachable) with both fields set and no duplicate
\* answers 201 with an id no existing user has and stores that pair under
\* it; a later get of a created id that was not updated or deleted since
\* answers 200 with the id, username and email of the create.
C9_CreateThenGet ==
    [][/\ \A p \in Procs, u \in Usernames, e \in Emails :
             (create_user(p, u, e, TRUE) /\ tableExists
                 /\ ~Duplicate(store, u, e))
             => /\ last'.code = 201
                /\ \E id \in Ids \ IdsOf(store) :
                      /\ last'.body = <<Row(id, u, e)>>
                      /\ store' = store \cup {Row(id, u, e)}
       /\ \A p \in Procs, id \in Ids :
             (get_user(p, id, TRUE) /\ tableExists /\ id \in IdsOf(origin))
             => /\ last'.code = 200
                /\ \E r \in origin : r.id = id /\ last'.body = <<r>>
      ]_vars

\* a get answered with a user exactly as created, while another user exists
C9_Witness ==
    /\ last.kind = "get" /\ last.code = 200
    /\ BodySet(last.body) \subseteq origin
    /\ Cardinality(store) = 2

\* C10: an update with neither username nor email answers 400 without a call
\* to the store or to the cache, and changes neither.
C10_EmptyUpdateRejected ==
    [][\A p \in Procs, id \in Ids, dbUp \in BOOLEAN :
          update_user(p, id, None, None, dbUp)
          => /\ last'.code = 400
             /\ last'.storeCalls = 0 /\ last'.cacheCalls = 0
             /\ store' = store /\ nextId' = nextId /\ cache' = cache]_vars

\* an update was refused with 400 while a user and a snapshot exist
C10_Witness ==
    /\ last.kind = "update" /\ last.code = 400
    /\ store # {} /\ cache.present

HeldByOther(rows, id, username, email) ==
    \E r \in rows : r.id # id /\ (r.username = username \/ r.email = email)

\* the fields an update supplies replace the old ones, the others stay
Merged(r, username, email) ==
    Row(r.id, IF Truthy(username) THEN username ELSE r.username,
        IF Truthy(email) THEN email ELSE r.email)

\* C11: an update (store reachable) answers 409 only if another user holds
\* the requested username or email; an update of an existing user that
\* supplies at least one field and clashes with no other user commits and
\* changes only the supplied fields of that user.
C11_UpdateConflictOnlyOnClash ==
    [][\A p \in Procs, id \in Ids, u \in UsernameArgs, e \in EmailArgs :
          (update_user(p, id, u, e, TRUE) /\ tableExists)
          => /\ last'.code = 409 => HeldByOther(store, id, u, e)
             /\ (id \in IdsOf(store) /\ (Truthy(u) \/ Truthy(e))
                    /\ ~HeldByOther(store, id, u, e))
                => /\ last'.committed
                   /\ store' = {IF r.id = id THEN Merged(r, u, e) ELSE r :
                                   r \in store}]_vars

\* C12: a list request that finds a snapshot answers 200 from it without a
\* store call; a list request that found none and cannot connect to the
\* store answers 503 and leaves the cache as it was; no other list request
\* answers 503.
C12_List503OnlyOnMiss ==
    [][/\ \A p \in Procs :
             (list_users(p, TRUE) /\ redis_client # None /\ cache.present)
             => /\ last'.code = 200 /\ last'.hit
                /\ last'.storeCalls = 0
                /\ last'.body = Decode(cache.value)
       /\ \A p \in Procs :
             list_users_query(p, FALSE)
             => (last'.code = 503 /\ cache' = cache)
       /\ (last'.kind = "list" /\ last'.code = 503)
             => (~last'.hit /\ last'.dbDown /\ last'.storeCalls = 1)]_vars

\* a list request answered 503 with users in the store and no snapshot
C12_Witness ==
    /\ last.kind = "list" /\ last.code = 503
    /\ store # {} /\ ~cache.present

\* C13: with a cache client, a create, update or delete that answers has
\* called the cache delete once if it committed and not at all otherwise.
C13_InvalidateOncePerCommit ==
    (IsMutation(last.kind) /\ last.code # 0 /\ redis_client # None)
        => last.cacheCalls = (IF last.committed THEN 1 ELSE 0)

AllIdle == \A p \in Procs : pc[p] = "idle"

\* C14: a list request whose SELECT was followed by the cache delete of a
\* committed mutation still writes what it selected: after it answers, the
\* cache holds its list with a full time to live. (The state the claim names
\* is C14_Witness.)
C14_StaleWriteAfterInvalidate ==
    (last.kind = "list" /\ last.raced /\ last.code = 200)
        => /\ cache.present
           /\ cache.ttl = TTL
           /\ Decode(cache.value) = last.body

\* no request is in flight and the cache holds, for the users of the store,
\* the values one of them had before an update that has invalidated since
C14_Witness ==
    /\ last.kind = "list" /\ last.raced /\ last.code = 200
    /\ AllIdle
    /\ cache.present
    /\ IdsOf(BodySet(Decode(cache.value))) = IdsOf(store)
    /\ BodySet(Decode(cache.value)) # store

\* C15: a snapshot in the cache was written less than 30 seconds ago and its
\* remaining time to live is 30 minus its age; a hit serves it and leaves
\* the entry, time to live included, as it was. So a snapshot, stale or not,
\* is gone 30 seconds after it was written and the next list misses.
C15_TtlFixedAtPopulation ==
    [][/\ cache'.present
             => /\ populated'.valid
                /\ cache'.ttl > 0
                /\ populated'.age + cache'.ttl = TTL
       /\ (last'.kind = "list" /\ last'.hit)
             => (cache' = cache /\ populated'.age <= TTL)]_vars

\* a hit served a snapshot that is TickStep seconds old and differs from
\* the store
C15_Witness ==
    /\ last.kind = "list" /\ last.hit
    /\ populated.age > 0
    /\ BodySet(last.body) # store

\* C16: when an update or delete answers 200 no snapshot is in the cache,
\* and the list request that follows it, with no request overlapping or in
\* between, is a miss that, when it answers 200, returns the users of the
\* store.
C16_NoSnapshotAfterUpdateDelete ==
    /\ (last.kind \in {"update", "delete"} /\ last.code = 200)
        => ~cache.present
    /\ (last.kind = "list" /\ last.afterMut \in {"update", "delete"})
        => /\ ~last.hit
           /\ last.code = 200 => BodySet(last.body) = store

\* the list request after a delete missed and cached the users that are left
C16_Witness ==
    /\ last.kind = "list" /\ last.afterMut = "delete" /\ last.code = 200
    /\ store # {} /\ cache.present

\* C17: no two users share an id; an update keeps the set of ids and every
\* user with another id; a delete removes nothing but the user with the
\* given id; no step but the committing step of a create, update or delete
\* changes the store.
C17_IdsStableAndUnshared ==
    [][/\ \A r1, r2 \in store' : r1.id = r2.id => r1 = r2
       /\ (last'.kind = "update" /\ last'.first /\ last'.committed)
             => \A p \in Procs, id \in Ids, u \in UsernameArgs,
                   e \in EmailArgs, dbUp \in BOOLEAN :
                   update_user(p, id, u, e, dbUp)
                   => /\ IdsOf(store') = IdsOf(store)
                      /\ \A r \in store : r.id # id => r \in store'
                      /\ Cardinality(store') = Cardinality(store)
       /\ (last'.kind = "delete" /\ last'.first /\ last'.committed)
             => \A p \in Procs, id \in Ids, dbUp \in BOOLEAN :
                   delete_user(p, id, dbUp)
                   => /\ store' = {r \in store : r.id # id}
                      /\ \A r \in store \ store' : r.id = id
       /\ (last'.kind \notin {"create", "update", "delete"}
              \/ ~last'.first \/ ~last'.committed)
             => store' = store]_vars

\* an update committed while another user is in the store
C17_Witness ==
    /\ last.kind = "update" /\ last.committed /\ last.code = 0
    /\ Cardinality(store) = 2

\* C18: a miss on an empty store leaves the text of the empty list in the
\* cache with a full time to live; a probe goes on to the store only when
\* the cache holds no snapshot at all, so the empty snapshot is served as a
\* hit, with no store call.
C18_EmptySnapshotIsAHit ==
    /\ (last.kind = "list" /\ ~last.hit /\ last.code = 200
            /\ last.body = <<>> /\ redis_client # None)
        => /\ cache.present
           /\ cache.ttl = TTL
           /\ Decode(cache.value) = <<>>
    /\ (last.kind = "list" /\ last.first /\ last.code = 0
            /\ redis_client # None)
        => ~cache.present
    /\ (last.kind = "list" /\ last.hit /\ last.body = <<>>)
        => (last.code = 200 /\ last.storeCalls = 0)

\* the empty snapshot was served as a hit some time after it was written
C18_Witness ==
    /\ last.kind = "list" /\ last.hit
    /\ last.body = <<>>
    /\ cache.ttl < TTL

====
